---- MODULE Spec2Model ----
(***************************************************************************)
(* A model of the nb crate (src/src/lib.rs): the WouldBlock-augmented      *)
(* error type and the four control-flow macros built on it, block!,        *)
(* block_while!, try_nb! and await!.                                       *)
(*                                                                         *)
(* Values are terms written in prefix form as sequences of strings:        *)
(* Ok(x) is <<"Ok">> \o x, Err(Error::Other(e)) is <<"Err", "Other">> \o e *)
(* and so on, so that Err(e), Err(Other(e)) and Err(WouldBlock) are three  *)
(* different values.                                                       *)
(*                                                                         *)
(* The expression $e handed to a macro is a producer: its i-th evaluation  *)
(* returns script[i].  The expression $c of block_while! returns           *)
(* cscript[i] on its i-th evaluation.  Each routine that expands a macro   *)
(* is a task; `current` is the task that has control of the one thread     *)
(* (NoTask: the caller / driver / event loop).                             *)
(***************************************************************************)
EXTENDS Naturals, Sequences, FiniteSets

\* Number of evaluations of $e (and of $c) a run scripts.
MaxLen == 3

----------------------------------------------------------------------------
\* Values

\* core::result::Result::Ok
Ok(v) == <<"Ok">> \o v

\* core::result::Result::Err
Err(v) == <<"Err">> \o v

\* nb::Error::Other
Other(v) == <<"Other">> \o v

\* nb::Error::WouldBlock
WouldBlock == <<"WouldBlock">>

\* futures::Async::NotReady
NotReady == <<"NotReady">>

\* futures::Async::Ready
Ready(v) == <<"Ready">> \o v

\* The success values T and the domain errors E of nb::Result<T, E>.
T == {<<"v1">>, <<"v2">>}

E == {<<"e1">>, <<"e2">>}

\* nb::Result<T, E> = Result<T, nb::Error<E>>
Result == {Ok(v) : v \in T} \cup {Err(Other(e)) : e \in E} \cup {Err(WouldBlock)}

\* The value of a place nothing was written to yet.
None == <<>>

\* A binding that loses the payload: every failure becomes the first domain
\* error.
ErrOtherBindingLost(v) == <<"e1">>

\* The patterns of the macros' match arms, and the variable each binds.
IsErrOther(v) == Len(v) >= 2 /\ v[1] = "Err" /\ v[2] = "Other"

IsErrWouldBlock(v) == v = Err(WouldBlock)

IsOk(v) == Len(v) >= 1 /\ v[1] = "Ok"

ErrOtherBinding(v) == Tail(Tail(v))

OkBinding(v) == Tail(v)

----------------------------------------------------------------------------
\* State

VARIABLES
    adapter,   \* adapter[t]: the macro task t expands
    script,    \* script[t]: what the evaluations of $e return, in order
    cscript,   \* cscript[t]: what the evaluations of $c return, in order
    pc,        \* pc[t]: where task t is
    r,         \* r[t]: the scrutinee of the match, the last value of $e
    x,         \* x[t]: the value try_nb! yielded to the enclosing function
    result,    \* result[t]: the value of the macro / the routine's return
    evals,     \* evals[t]: evaluations of $e so far
    cevals,    \* cevals[t]: evaluations of $c so far
    entries,   \* entries[t]: calls, polls or resumptions of task t so far
    yields,    \* yields[t]: suspensions of task t so far
    trace,     \* trace[t]: the events of task t, in order
    current,   \* the task in control, NoTask when the driver is
    call       \* the call of a function of Error<E> under way, if any

vars == <<adapter, script, cscript, pc, r, x, result, evals, cevals, entries,
          yields, trace, current, call>>

\* The macros call no function of Error<E>.
NoCall == [fn |-> "none"]

Adapters == {"block", "block_while", "try_nb", "await"}

NoTask == 0

Tasks == DOMAIN adapter

Scripts == [1..MaxLen -> Result]

CScripts == [1..MaxLen -> BOOLEAN]

\* The events a trace records.
EvE(v) == <<"e">> \o v

EvC(b) == <<"c", IF b THEN "true" ELSE "false">>

EvEnter == <<"enter">>

EvYield == <<"yield">>

EvExit == <<"exit">>

Log(t, ev) == trace' = [trace EXCEPT ![t] = Append(@, ev)]

----------------------------------------------------------------------------
\* The producer and the predicate

\* One evaluation of $e by task t: the producer's next outcome becomes the
\* scrutinee of the match.
EvalE(t) ==
    /\ evals[t] < Len(script[t])
    /\ r' = [r EXCEPT ![t] = script[t][evals[t] + 1]]
    /\ evals' = [evals EXCEPT ![t] = @ + 1]

\* The value the next evaluation of $c by task t returns.
NextC(t) == cscript[t][cevals[t] + 1]

----------------------------------------------------------------------------
\* Initial states: one task, expanding any of the macros over any producer
\* (and, for block_while!, any predicate).

InitTask(ts) ==
    /\ script \in [ts -> Scripts]
    /\ cscript \in [ts -> CScripts \cup {<<>>}]
    /\ \A t \in ts : (cscript[t] = <<>>) <=> (adapter[t] # "block_while")
    /\ pc = [t \in ts |-> "idle"]
    /\ r = [t \in ts |-> None]
    /\ x = [t \in ts |-> None]
    /\ result = [t \in ts |-> None]
    /\ evals = [t \in ts |-> 0]
    /\ cevals = [t \in ts |-> 0]
    /\ entries = [t \in ts |-> 0]
    /\ yields = [t \in ts |-> 0]
    /\ trace = [t \in ts |-> <<>>]
    /\ current = NoTask

Init ==
    /\ adapter \in [{1} -> Adapters]
    /\ InitTask({1})
    /\ call = NoCall

----------------------------------------------------------------------------
\* block!($e)                                     loop { match $e { ... } }

\* The caller reaches a blocking macro (block! or block_while!): control
\* enters its loop.
Call(t) ==
    /\ adapter[t] \in {"block", "block_while"}
    /\ current = NoTask
    /\ pc[t] = "idle"
    /\ current' = t
    /\ pc' = [pc EXCEPT ![t] = "loop"]
    /\ entries' = [entries EXCEPT ![t] = @ + 1]
    /\ Log(t, EvEnter)
    /\ UNCHANGED <<call, adapter, script, cscript, r, x, result, evals, cevals, yields>>

\* match $e
BlockEval(t) ==
    /\ adapter[t] = "block"
    /\ current = t
    /\ pc[t] = "loop"
    /\ EvalE(t)
    /\ pc' = [pc EXCEPT ![t] = "match"]
    /\ Log(t, EvE(r'[t]))
    /\ UNCHANGED <<call, adapter, script, cscript, x, result, cevals, entries,
                   yields, current>>

\* A block! whose Other arm lost its break:       Err(Error::Other(e)) => {}
BlockOtherNoBreak(t) ==
    /\ adapter[t] = "block"
    /\ current = t
    /\ pc[t] = "match"
    /\ IsErrOther(r[t])
    /\ pc' = [pc EXCEPT ![t] = "loop"]
    /\ UNCHANGED <<call, adapter, script, cscript, r, x, result, evals, cevals, entries,
                   yields, trace, current>>

\* A block! that breaks with the augmented error, as block_while! does:
\*                                     Err(Error::Other(e)) => break Err(Error::Other(e))
BlockOtherAugmented(t) ==
    /\ adapter[t] = "block"
    /\ current = t
    /\ pc[t] = "match"
    /\ IsErrOther(r[t])
    /\ result' = [result EXCEPT ![t] = Err(Other(ErrOtherBinding(r[t])))]
    /\ pc' = [pc EXCEPT ![t] = "done"]
    /\ current' = NoTask
    /\ Log(t, EvExit)
    /\ UNCHANGED <<call, adapter, script, cscript, r, x, evals, cevals, entries, yields>>

\* Err(Error::Other(e)) => break Err(e)
BlockOther(t) ==
    /\ adapter[t] = "block"
    /\ current = t
    /\ pc[t] = "match"
    /\ IsErrOther(r[t])
    /\ result' = [result EXCEPT ![t] = Err(ErrOtherBinding(r[t]))]
    /\ pc' = [pc EXCEPT ![t] = "done"]
    /\ current' = NoTask
    /\ Log(t, EvExit)
    /\ UNCHANGED <<call, adapter, script, cscript, r, x, evals, cevals, entries, yields>>

\* A block! that gives up on the first Err(WouldBlock), as block_while! does
\* when its predicate is false:  Err(Error::WouldBlock) => break Err(Error::WouldBlock)
BlockWouldBlockBreaks(t) ==
    /\ adapter[t] = "block"
    /\ current = t
    /\ pc[t] = "match"
    /\ IsErrWouldBlock(r[t])
    /\ result' = [result EXCEPT ![t] = Err(WouldBlock)]
    /\ pc' = [pc EXCEPT ![t] = "done"]
    /\ current' = NoTask
    /\ Log(t, EvExit)
    /\ UNCHANGED <<call, adapter, script, cscript, r, x, evals, cevals, entries, yields>>

\* Err(Error::WouldBlock) => {}
BlockWouldBlock(t) ==
    /\ adapter[t] = "block"
    /\ current = t
    /\ pc[t] = "match"
    /\ IsErrWouldBlock(r[t])
    /\ pc' = [pc EXCEPT ![t] = "loop"]
    /\ UNCHANGED <<call, adapter, script, cscript, r, x, result, evals, cevals, entries,
                   yields, trace, current>>

\* A block! whose Ok arm lost its break:            Ok(x) => {}
BlockOkNoBreak(t) ==
    /\ adapter[t] = "block"
    /\ current = t
    /\ pc[t] = "match"
    /\ IsOk(r[t])
    /\ pc' = [pc EXCEPT ![t] = "loop"]
    /\ UNCHANGED <<call, adapter, script, cscript, r, x, result, evals, cevals, entries,
                   yields, trace, current>>

\* Ok(x) => break Ok(x)
BlockOk(t) ==
    /\ adapter[t] = "block"
    /\ current = t
    /\ pc[t] = "match"
    /\ IsOk(r[t])
    /\ result' = [result EXCEPT ![t] = Ok(OkBinding(r[t]))]
    /\ pc' = [pc EXCEPT ![t] = "done"]
    /\ current' = NoTask
    /\ Log(t, EvExit)
    /\ UNCHANGED <<call, adapter, script, cscript, r, x, evals, cevals, entries, yields>>

----------------------------------------------------------------------------
\* block_while!($c, $e)                           loop { match $e { ... } }

\* A block_while! written as a while loop, which asks the predicate before
\* every attempt:                         while $c { match $e { ... } }
BlockWhileEvalCheckFirst(t) ==
    /\ adapter[t] = "block_while"
    /\ current = t
    /\ pc[t] = "loop"
    /\ cevals[t] < Len(cscript[t])
    /\ cevals' = [cevals EXCEPT ![t] = @ + 1]
    /\ IF NextC(t)
         THEN /\ EvalE(t)
              /\ pc' = [pc EXCEPT ![t] = "match"]
              /\ trace' = [trace EXCEPT ![t] = Append(Append(@, EvC(NextC(t))), EvE(r'[t]))]
              /\ UNCHANGED <<result, current>>
         ELSE /\ result' = [result EXCEPT ![t] = Err(WouldBlock)]
              /\ pc' = [pc EXCEPT ![t] = "done"]
              /\ current' = NoTask
              /\ trace' = [trace EXCEPT ![t] = Append(Append(@, EvC(NextC(t))), EvExit)]
              /\ UNCHANGED <<r, evals>>
    /\ UNCHANGED <<call, adapter, script, cscript, x, entries, yields>>

\* match $e
BlockWhileEval(t) ==
    /\ adapter[t] = "block_while"
    /\ current = t
    /\ pc[t] = "loop"
    /\ EvalE(t)
    /\ pc' = [pc EXCEPT ![t] = "match"]
    /\ Log(t, EvE(r'[t]))
    /\ UNCHANGED <<call, adapter, script, cscript, x, result, cevals, entries,
                   yields, current>>

\* A block_while! that reports a terminal failure as exhaustion:
\*                          Err(Error::Other(e)) => break Err(Error::WouldBlock)
BlockWhileOtherAsWouldBlock(t) ==
    /\ adapter[t] = "block_while"
    /\ current = t
    /\ pc[t] = "match"
    /\ IsErrOther(r[t])
    /\ result' = [result EXCEPT ![t] = Err(WouldBlock)]
    /\ pc' = [pc EXCEPT ![t] = "done"]
    /\ current' = NoTask
    /\ Log(t, EvExit)
    /\ UNCHANGED <<call, adapter, script, cscript, r, x, evals, cevals, entries, yields>>

\* Err(Error::Other(e)) => break Err(Error::Other(e))
BlockWhileOther(t) ==
    /\ adapter[t] = "block_while"
    /\ current = t
    /\ pc[t] = "match"
    /\ IsErrOther(r[t])
    /\ result' = [result EXCEPT ![t] = Err(Other(ErrOtherBinding(r[t])))]
    /\ pc' = [pc EXCEPT ![t] = "done"]
    /\ current' = NoTask
    /\ Log(t, EvExit)
    /\ UNCHANGED <<call, adapter, script, cscript, r, x, evals, cevals, entries, yields>>

\* A block_while! that reads the predicate the wrong way round:
\*                   Err(Error::WouldBlock) => { if $c { break Err(Error::WouldBlock); } }
BlockWhileWouldBlockInverted(t) ==
    /\ adapter[t] = "block_while"
    /\ current = t
    /\ pc[t] = "match"
    /\ IsErrWouldBlock(r[t])
    /\ cevals[t] < Len(cscript[t])
    /\ cevals' = [cevals EXCEPT ![t] = @ + 1]
    /\ IF NextC(t)
         THEN /\ result' = [result EXCEPT ![t] = Err(WouldBlock)]
              /\ pc' = [pc EXCEPT ![t] = "done"]
              /\ current' = NoTask
              /\ trace' = [trace EXCEPT ![t] = Append(Append(@, EvC(NextC(t))), EvExit)]
         ELSE /\ pc' = [pc EXCEPT ![t] = "loop"]
              /\ Log(t, EvC(NextC(t)))
              /\ UNCHANGED <<result, current>>
    /\ UNCHANGED <<call, adapter, script, cscript, r, x, evals, entries, yields>>

\* Err(Error::WouldBlock) => { if !$c { break Err(Error::WouldBlock); } }
BlockWhileWouldBlock(t) ==
    /\ adapter[t] = "block_while"
    /\ current = t
    /\ pc[t] = "match"
    /\ IsErrWouldBlock(r[t])
    /\ cevals[t] < Len(cscript[t])
    /\ cevals' = [cevals EXCEPT ![t] = @ + 1]
    /\ IF ~NextC(t)
         THEN /\ result' = [result EXCEPT ![t] = Err(WouldBlock)]
              /\ pc' = [pc EXCEPT ![t] = "done"]
              /\ current' = NoTask
              /\ trace' = [trace EXCEPT ![t] = Append(Append(@, EvC(NextC(t))), EvExit)]
         ELSE /\ pc' = [pc EXCEPT ![t] = "loop"]
              /\ Log(t, EvC(NextC(t)))
              /\ UNCHANGED <<result, current>>
    /\ UNCHANGED <<call, adapter, script, cscript, r, x, evals, entries, yields>>

\* A block_while! that asks the predicate on success too:
\*            Ok(x) => { if !$c { break Err(Error::WouldBlock); } break Ok(x) }
BlockWhileOkChecked(t) ==
    /\ adapter[t] = "block_while"
    /\ current = t
    /\ pc[t] = "match"
    /\ IsOk(r[t])
    /\ cevals[t] < Len(cscript[t])
    /\ cevals' = [cevals EXCEPT ![t] = @ + 1]
    /\ result' = [result EXCEPT ![t] =
                    IF ~NextC(t) THEN Err(WouldBlock) ELSE Ok(OkBinding(r[t]))]
    /\ pc' = [pc EXCEPT ![t] = "done"]
    /\ current' = NoTask
    /\ trace' = [trace EXCEPT ![t] = Append(Append(@, EvC(NextC(t))), EvExit)]
    /\ UNCHANGED <<call, adapter, script, cscript, r, x, evals, entries, yields>>

\* Ok(x) => break Ok(x)
BlockWhileOk(t) ==
    /\ adapter[t] = "block_while"
    /\ current = t
    /\ pc[t] = "match"
    /\ IsOk(r[t])
    /\ result' = [result EXCEPT ![t] = Ok(OkBinding(r[t]))]
    /\ pc' = [pc EXCEPT ![t] = "done"]
    /\ current' = NoTask
    /\ Log(t, EvExit)
    /\ UNCHANGED <<call, adapter, script, cscript, r, x, evals, cevals, entries, yields>>

----------------------------------------------------------------------------
\* try_nb!($e) inside a poll function           match $e { ... }
\* The enclosing function is the closure of the futures example,
\*     || Ok(Async::Ready(try_nb!($e)))

EvAfter == <<"after">>

\* The driver polls the function: the first time, and again for as long as
\* it answers NotReady.
Poll(t) ==
    /\ adapter[t] = "try_nb"
    /\ current = NoTask
    /\ \/ pc[t] = "idle"
       \/ pc[t] = "returned" /\ result[t] = Ok(NotReady)
    /\ current' = t
    /\ pc' = [pc EXCEPT ![t] = "expr"]
    /\ entries' = [entries EXCEPT ![t] = @ + 1]
    /\ Log(t, EvEnter)
    /\ UNCHANGED <<call, adapter, script, cscript, r, x, result, evals, cevals, yields>>

\* match $e
TryNbEval(t) ==
    /\ adapter[t] = "try_nb"
    /\ current = t
    /\ pc[t] = "expr"
    /\ EvalE(t)
    /\ pc' = [pc EXCEPT ![t] = "match"]
    /\ Log(t, EvE(r'[t]))
    /\ UNCHANGED <<call, adapter, script, cscript, x, result, cevals, entries,
                   yields, current>>

\* A try_nb! that takes a terminal failure for not ready:
\*                           Err(Error::Other(e)) => return Ok(Async::NotReady)
TryNbOtherNotReady(t) ==
    /\ adapter[t] = "try_nb"
    /\ current = t
    /\ pc[t] = "match"
    /\ IsErrOther(r[t])
    /\ result' = [result EXCEPT ![t] = Ok(NotReady)]
    /\ pc' = [pc EXCEPT ![t] = "returned"]
    /\ current' = NoTask
    /\ Log(t, EvExit)
    /\ UNCHANGED <<call, adapter, script, cscript, r, x, evals, cevals, entries, yields>>

\* Err(Error::Other(e)) => return Err(e)
TryNbOther(t) ==
    /\ adapter[t] = "try_nb"
    /\ current = t
    /\ pc[t] = "match"
    /\ IsErrOther(r[t])
    /\ result' = [result EXCEPT ![t] = Err(ErrOtherBinding(r[t]))]
    /\ pc' = [pc EXCEPT ![t] = "returned"]
    /\ current' = NoTask
    /\ Log(t, EvExit)
    /\ UNCHANGED <<call, adapter, script, cscript, r, x, evals, cevals, entries, yields>>

\* A try_nb! that retries, as block! does:       Err(Error::WouldBlock) => continue
TryNbWouldBlockRetry(t) ==
    /\ adapter[t] = "try_nb"
    /\ current = t
    /\ pc[t] = "match"
    /\ IsErrWouldBlock(r[t])
    /\ pc' = [pc EXCEPT ![t] = "expr"]
    /\ UNCHANGED <<call, adapter, script, cscript, r, x, result, evals, cevals, entries,
                   yields, trace, current>>

\* Err(Error::WouldBlock) => return Ok(Async::NotReady)
TryNbWouldBlock(t) ==
    /\ adapter[t] = "try_nb"
    /\ current = t
    /\ pc[t] = "match"
    /\ IsErrWouldBlock(r[t])
    /\ result' = [result EXCEPT ![t] = Ok(NotReady)]
    /\ pc' = [pc EXCEPT ![t] = "returned"]
    /\ current' = NoTask
    /\ Log(t, EvExit)
    /\ UNCHANGED <<call, adapter, script, cscript, r, x, evals, cevals, entries, yields>>

\* Ok(x) => x
TryNbOk(t) ==
    /\ adapter[t] = "try_nb"
    /\ current = t
    /\ pc[t] = "match"
    /\ IsOk(r[t])
    /\ x' = [x EXCEPT ![t] = OkBinding(r[t])]
    /\ pc' = [pc EXCEPT ![t] = "after"]
    /\ UNCHANGED <<call, adapter, script, cscript, r, result, evals, cevals, entries,
                   yields, trace, current>>

\* The code after the adapter: Ok(Async::Ready(<the adapter's value>))
PollReady(t) ==
    /\ adapter[t] = "try_nb"
    /\ current = t
    /\ pc[t] = "after"
    /\ result' = [result EXCEPT ![t] = Ok(Ready(x[t]))]
    /\ pc' = [pc EXCEPT ![t] = "returned"]
    /\ current' = NoTask
    /\ trace' = [trace EXCEPT ![t] = Append(Append(@, EvAfter), EvExit)]
    /\ UNCHANGED <<call, adapter, script, cscript, r, x, evals, cevals, entries, yields>>

----------------------------------------------------------------------------
\* await!($e) inside a generator          loop { match $e { ... } yield }
\* The enclosing routine is the generator || await!($e).

\* The driver resumes the generator: it starts, or goes on after its yield,
\* which is the end of the loop's body.
Resume(t) ==
    /\ adapter[t] = "await"
    /\ current = NoTask
    /\ pc[t] \in {"idle", "suspended"}
    /\ current' = t
    /\ pc' = [pc EXCEPT ![t] = "loop"]
    /\ entries' = [entries EXCEPT ![t] = @ + 1]
    /\ Log(t, EvEnter)
    /\ UNCHANGED <<call, adapter, script, cscript, r, x, result, evals, cevals, yields>>

\* match $e
AwaitEval(t) ==
    /\ adapter[t] = "await"
    /\ current = t
    /\ pc[t] = "loop"
    /\ EvalE(t)
    /\ pc' = [pc EXCEPT ![t] = "match"]
    /\ Log(t, EvE(r'[t]))
    /\ UNCHANGED <<call, adapter, script, cscript, x, result, cevals, entries,
                   yields, current>>

\* An await! whose Other arm lost its break:      Err(Error::Other(e)) => {}
AwaitOtherNoBreak(t) ==
    /\ adapter[t] = "await"
    /\ current = t
    /\ pc[t] = "match"
    /\ IsErrOther(r[t])
    /\ pc' = [pc EXCEPT ![t] = "yield"]
    /\ UNCHANGED <<call, adapter, script, cscript, r, x, result, evals, cevals, entries,
                   yields, trace, current>>

\* Err(Error::Other(e)) => break Err(e)
AwaitOther(t) ==
    /\ adapter[t] = "await"
    /\ current = t
    /\ pc[t] = "match"
    /\ IsErrOther(r[t])
    /\ result' = [result EXCEPT ![t] = Err(ErrOtherBinding(r[t]))]
    /\ pc' = [pc EXCEPT ![t] = "done"]
    /\ current' = NoTask
    /\ Log(t, EvExit)
    /\ UNCHANGED <<call, adapter, script, cscript, r, x, evals, cevals, entries, yields>>

\* An await! that retries without yielding:       Err(Error::WouldBlock) => continue
AwaitWouldBlockSpins(t) ==
    /\ adapter[t] = "await"
    /\ current = t
    /\ pc[t] = "match"
    /\ IsErrWouldBlock(r[t])
    /\ pc' = [pc EXCEPT ![t] = "loop"]
    /\ UNCHANGED <<call, adapter, script, cscript, r, x, result, evals, cevals, entries,
                   yields, trace, current>>

\* An await! that hands the transient outcome to the routine:
\*                       Err(Error::WouldBlock) => break Err(Error::WouldBlock)
AwaitWouldBlockBreaks(t) ==
    /\ adapter[t] = "await"
    /\ current = t
    /\ pc[t] = "match"
    /\ IsErrWouldBlock(r[t])
    /\ result' = [result EXCEPT ![t] = Err(WouldBlock)]
    /\ pc' = [pc EXCEPT ![t] = "done"]
    /\ current' = NoTask
    /\ Log(t, EvExit)
    /\ UNCHANGED <<call, adapter, script, cscript, r, x, evals, cevals, entries, yields>>

\* Err(Error::WouldBlock) => {}, and control falls out of the match
AwaitWouldBlock(t) ==
    /\ adapter[t] = "await"
    /\ current = t
    /\ pc[t] = "match"
    /\ IsErrWouldBlock(r[t])
    /\ pc' = [pc EXCEPT ![t] = "yield"]
    /\ UNCHANGED <<call, adapter, script, cscript, r, x, result, evals, cevals, entries,
                   yields, trace, current>>

\* An await! whose Ok arm lost its break, so that it yields and tries again:
\*                                                               Ok(x) => {}
AwaitOkNoBreak(t) ==
    /\ adapter[t] = "await"
    /\ current = t
    /\ pc[t] = "match"
    /\ IsOk(r[t])
    /\ pc' = [pc EXCEPT ![t] = "yield"]
    /\ UNCHANGED <<call, adapter, script, cscript, r, x, result, evals, cevals, entries,
                   yields, trace, current>>

\* Ok(x) => break Ok(x)
AwaitOk(t) ==
    /\ adapter[t] = "await"
    /\ current = t
    /\ pc[t] = "match"
    /\ IsOk(r[t])
    /\ result' = [result EXCEPT ![t] = Ok(OkBinding(r[t]))]
    /\ pc' = [pc EXCEPT ![t] = "done"]
    /\ current' = NoTask
    /\ Log(t, EvExit)
    /\ UNCHANGED <<call, adapter, script, cscript, r, x, evals, cevals, entries, yields>>

\* An await! whose yield comes straight back, with no resumption by the
\* driver: the routine counts a suspension and goes on with its loop.
AwaitYieldComesBack(t) ==
    /\ adapter[t] = "await"
    /\ current = t
    /\ pc[t] = "yield"
    /\ pc' = [pc EXCEPT ![t] = "loop"]
    /\ yields' = [yields EXCEPT ![t] = @ + 1]
    /\ Log(t, EvYield)
    /\ UNCHANGED <<call, adapter, script, cscript, r, x, result, evals, cevals, entries,
                   current>>

\* yield
AwaitYield(t) ==
    /\ adapter[t] = "await"
    /\ current = t
    /\ pc[t] = "yield"
    /\ pc' = [pc EXCEPT ![t] = "suspended"]
    /\ yields' = [yields EXCEPT ![t] = @ + 1]
    /\ current' = NoTask
    /\ Log(t, EvYield)
    /\ UNCHANGED <<call, adapter, script, cscript, r, x, result, evals, cevals, entries>>

----------------------------------------------------------------------------
\* The specification

Next ==
    \/ \E t \in Tasks : Call(t)
    \/ \E t \in Tasks : BlockEval(t)
    \/ \E t \in Tasks : BlockOther(t)
    \/ \E t \in Tasks : BlockWouldBlock(t)
    \/ \E t \in Tasks : BlockOk(t)
    \/ \E t \in Tasks : BlockWhileEval(t)
    \/ \E t \in Tasks : BlockWhileOther(t)
    \/ \E t \in Tasks : BlockWhileWouldBlock(t)
    \/ \E t \in Tasks : BlockWhileOk(t)
    \/ \E t \in Tasks : Poll(t)
    \/ \E t \in Tasks : TryNbEval(t)
    \/ \E t \in Tasks : TryNbOther(t)
    \/ \E t \in Tasks : TryNbWouldBlock(t)
    \/ \E t \in Tasks : TryNbOk(t)
    \/ \E t \in Tasks : PollReady(t)
    \/ \E t \in Tasks : Resume(t)
    \/ \E t \in Tasks : AwaitEval(t)
    \/ \E t \in Tasks : AwaitOther(t)
    \/ \E t \in Tasks : AwaitWouldBlock(t)
    \/ \E t \in Tasks : AwaitOk(t)
    \/ \E t \in Tasks : AwaitYield(t)

Spec == Init /\ [][Next]_vars

----------------------------------------------------------------------------
\* block! runs on the calling thread, which does not stop: once control is
\* in the loop, the loop's next step is taken.

BlockStep ==
    \E t \in Tasks :
        \/ BlockEval(t)
        \/ BlockOther(t)
        \/ BlockWouldBlock(t)
        \/ BlockOk(t)

SpecBlockFair == Spec /\ WF_vars(BlockStep)

----------------------------------------------------------------------------
\* The three execution models over one producer: task 1 calls block!, task 2
\* is a poll function that uses try_nb!, task 3 a generator that uses await!.
\* Each task has a producer of its own, and the three producers follow the
\* same script.

InitAgree ==
    /\ adapter = <<"block", "try_nb", "await">>
    /\ \E s \in Scripts : script = [t \in 1..3 |-> s]
    /\ cscript = [t \in 1..3 |-> <<>>]
    /\ InitTask(1..3)
    /\ call = NoCall

NextAgree ==
    \/ \E t \in Tasks : Call(t)
    \/ \E t \in Tasks : BlockEval(t)
    \/ \E t \in Tasks : BlockOther(t)
    \/ \E t \in Tasks : BlockWouldBlock(t)
    \/ \E t \in Tasks : BlockOk(t)
    \/ \E t \in Tasks : Poll(t)
    \/ \E t \in Tasks : TryNbEval(t)
    \/ \E t \in Tasks : TryNbOther(t)
    \/ \E t \in Tasks : TryNbWouldBlock(t)
    \/ \E t \in Tasks : TryNbOk(t)
    \/ \E t \in Tasks : PollReady(t)
    \/ \E t \in Tasks : Resume(t)
    \/ \E t \in Tasks : AwaitEval(t)
    \/ \E t \in Tasks : AwaitOther(t)
    \/ \E t \in Tasks : AwaitWouldBlock(t)
    \/ \E t \in Tasks : AwaitOk(t)
    \/ \E t \in Tasks : AwaitYield(t)

SpecAgree == InitAgree /\ [][NextAgree]_vars

----------------------------------------------------------------------------
\* The event loop of the await! example, on one thread:
\*     loop { blinky.resume(); loopback.resume(); }
\* Task 1 is resumed first, then task 2, in turns.  Task 2 uses await!;
\* task 1 uses await! or, in its place, block!.  A producer, once it is
\* ready, stays ready with the same outcome.  The loop gives each task
\* MaxLen turns, and passes over a task that is done.

SteadyScripts ==
    {s \in Scripts : \A i \in 1..(MaxLen - 1) : s[i] # Err(WouldBlock) => s[i + 1] = s[i]}

InitLoop ==
    /\ adapter \in {<<"await", "await">>, <<"block", "await">>}
    /\ cscript = [t \in 1..2 |-> <<>>]
    /\ \E s1 \in SteadyScripts : \E s2 \in SteadyScripts : script = <<s1, s2>>
    /\ InitTask(1..2)
    /\ call = NoCall

\* The task the loop runs next.
Turn(t) ==
    /\ entries[t] < MaxLen
    /\ \/ t = 1 /\ (entries[1] = entries[2] \/ pc[2] = "done")
       \/ t = 2 /\ (entries[2] < entries[1] \/ pc[1] = "done")

LoopCall(t) == Turn(t) /\ Call(t)

LoopResume(t) == Turn(t) /\ Resume(t)

NextLoop ==
    \/ \E t \in Tasks : LoopCall(t)
    \/ \E t \in Tasks : BlockEval(t)
    \/ \E t \in Tasks : BlockOther(t)
    \/ \E t \in Tasks : BlockWouldBlock(t)
    \/ \E t \in Tasks : BlockOk(t)
    \/ \E t \in Tasks : LoopResume(t)
    \/ \E t \in Tasks : AwaitEval(t)
    \/ \E t \in Tasks : AwaitOther(t)
    \/ \E t \in Tasks : AwaitWouldBlock(t)
    \/ \E t \in Tasks : AwaitOk(t)
    \/ \E t \in Tasks : AwaitYield(t)

\* The thread does not stop: the loop and the routine in control go on.
SpecLoop == InitLoop /\ [][NextLoop]_vars /\ WF_vars(NextLoop)

----------------------------------------------------------------------------
\* The functions of Error<E>: map, From<E>::from and the derived ==.
\* A call is [fn, pc, a, b, op, opcalls, ret]: the function, where the call
\* is, its arguments (self and other, or the one argument), the closure
\* handed to map, the calls of that closure so far, and the value returned.

\* The domain errors map's closure turns E into.
E2 == {<<"e1">>, <<"e2">>, <<"e3">>, <<"e4">>}

\* Error<X>
ErrorOf(X) == {Other(e) : e \in X} \cup {WouldBlock}

\* The closures F: FnOnce(E) -> T handed to map.
Ops == [E -> E2]

\* The patterns of map's match arms, and the variable the first binds.
IsOther(v) == Len(v) >= 1 /\ v[1] = "Other"

IsWouldBlock(v) == v = WouldBlock

OtherBinding(v) == Tail(v)

\* No macro is being expanded.
NoTasks ==
    /\ adapter = <<>>
    /\ InitTask({})

\* A call of map, of from or of == is made, with any arguments.
InitError ==
    /\ NoTasks
    /\ \/ \E a \in ErrorOf(E) : \E op \in Ops :
              call = [fn |-> "map", pc |-> "called", a |-> a, b |-> None,
                      op |-> op, opcalls |-> 0, ret |-> None]
       \/ \E a \in E :
              call = [fn |-> "from", pc |-> "called", a |-> a, b |-> None,
                      op |-> None, opcalls |-> 0, ret |-> None]
       \/ \E a \in ErrorOf(E2) : \E b \in ErrorOf(E2) :
              call = [fn |-> "eq", pc |-> "called", a |-> a, b |-> b,
                      op |-> None, opcalls |-> 0, ret |-> None]

macros == <<adapter, script, cscript, pc, r, x, result, evals, cevals, entries,
            yields, trace, current>>

\* A map that does not apply the closure:     Error::Other(e) => Error::Other(e)
MapOtherUnmapped ==
    /\ call.fn = "map"
    /\ call.pc = "called"
    /\ IsOther(call.a)
    /\ call' = [call EXCEPT !.ret = Other(OtherBinding(call.a)),
                            !.pc = "returned"]
    /\ UNCHANGED macros

\* Error::Other(e) => Error::Other(op(e))
MapOther ==
    /\ call.fn = "map"
    /\ call.pc = "called"
    /\ IsOther(call.a)
    /\ call' = [call EXCEPT !.ret = Other(call.op[OtherBinding(call.a)]),
                            !.opcalls = @ + 1,
                            !.pc = "returned"]
    /\ UNCHANGED macros

\* Error::WouldBlock => Error::WouldBlock
MapWouldBlock ==
    /\ call.fn = "map"
    /\ call.pc = "called"
    /\ IsWouldBlock(call.a)
    /\ call' = [call EXCEPT !.ret = WouldBlock, !.pc = "returned"]
    /\ UNCHANGED macros

\* A conversion that takes every domain error for the transient outcome.
FromWouldBlock ==
    /\ call.fn = "from"
    /\ call.pc = "called"
    /\ call' = [call EXCEPT !.ret = WouldBlock, !.pc = "returned"]
    /\ UNCHANGED macros

\* fn from(error: E) -> Error<E> { Error::Other(error) }
From ==
    /\ call.fn = "from"
    /\ call.pc = "called"
    /\ call' = [call EXCEPT !.ret = Other(call.a), !.pc = "returned"]
    /\ UNCHANGED macros

\* An == that compares the variants and not their payloads.
PartialEqVariantOnly(a, b) == Head(a) = Head(b)

\* #[derive(PartialEq)]: the variants are the same and, for Other, so are the
\* payloads.
PartialEq(a, b) ==
    IF Head(a) # Head(b)
      THEN FALSE
      ELSE IF IsOther(a) THEN OtherBinding(a) = OtherBinding(b) ELSE TRUE

\* a == b
Eq ==
    /\ call.fn = "eq"
    /\ call.pc = "called"
    /\ call' = [call EXCEPT !.ret = PartialEq(call.a, call.b), !.pc = "returned"]
    /\ UNCHANGED macros

NextError ==
    \/ MapOther
    \/ MapWouldBlock
    \/ From
    \/ Eq

SpecError == InitError /\ [][NextError]_vars

----------------------------------------------------------------------------
\* Properties

\* The first k evaluations of $e scripted by s return Err(WouldBlock).
WouldBlockTimes(s, k) == \A i \in 1..k : s[i] = Err(WouldBlock)

\* The first k evaluations of $c scripted by cs return true.
TrueTimes(cs, k) == \A i \in 1..k : cs[i]

\* Task t has not left the macro, and the model lets it take a step.
Running(t) == pc[t] # "done" => ENABLED Next

\* C1: block! over a producer that returns Err(WouldBlock) on its first k
\* evaluations and Ok(v) on evaluation k+1 never evaluates the producer more
\* than k+1 times, keeps running until it is done, and is done after exactly
\* k+1 evaluations with the result Ok(v).
C1_BlockEvaluatesUntilOk ==
    \A t \in Tasks : \A k \in 0..(MaxLen - 1) : \A v \in T :
        (/\ adapter[t] = "block"
         /\ WouldBlockTimes(script[t], k)
         /\ script[t][k + 1] = Ok(v))
        => /\ evals[t] <= k + 1
           /\ Running(t)
           /\ pc[t] = "done" => evals[t] = k + 1 /\ result[t] = Ok(v)

\* block! has returned Ok(v) after MaxLen - 2 outcomes Err(WouldBlock), with
\* an outcome of the producer left unread.
C1_Witness ==
    \E t \in Tasks : \E v \in T :
        /\ adapter[t] = "block"
        /\ WouldBlockTimes(script[t], MaxLen - 2)
        /\ script[t][MaxLen - 1] = Ok(v)
        /\ pc[t] = "done"
        /\ evals[t] = MaxLen - 1
        /\ result[t] = Ok(v)

\* C2: block! over a producer that returns Err(WouldBlock) k times and then
\* Err(Other(e)) is done after exactly k+1 evaluations with the result Err(e),
\* and evaluates the producer no more: the evaluations never exceed k+1 and
\* its trace ends with the terminal outcome and the exit.
C2_BlockHaltsOnOther ==
    \A t \in Tasks : \A k \in 0..(MaxLen - 1) : \A e \in E :
        (/\ adapter[t] = "block"
         /\ WouldBlockTimes(script[t], k)
         /\ script[t][k + 1] = Err(Other(e)))
        => /\ evals[t] <= k + 1
           /\ Running(t)
           /\ pc[t] = "done" =>
                /\ evals[t] = k + 1
                /\ result[t] = Err(e)
                /\ current = NoTask
                /\ SubSeq(trace[t], Len(trace[t]) - 1, Len(trace[t]))
                     = <<EvE(Err(Other(e))), EvExit>>

\* block! has returned Err(e) after MaxLen - 2 outcomes Err(WouldBlock), with
\* an outcome of the producer left unread.
C2_Witness ==
    \E t \in Tasks : \E e \in E :
        /\ adapter[t] = "block"
        /\ WouldBlockTimes(script[t], MaxLen - 2)
        /\ script[t][MaxLen - 1] = Err(Other(e))
        /\ script[t][MaxLen] = Ok(<<"v1">>)
        /\ pc[t] = "done"
        /\ evals[t] = MaxLen - 1
        /\ result[t] = Err(e)

\* C3: block_while! over a producer that always returns Err(WouldBlock) and a
\* predicate that is true on its first k-1 evaluations and false on the k-th
\* (k >= 1) is done after exactly k evaluations of the producer, with the
\* result Err(WouldBlock).
C3_BlockWhileGivesUp ==
    \A t \in Tasks : \A k \in 1..MaxLen :
        (/\ adapter[t] = "block_while"
         /\ WouldBlockTimes(script[t], MaxLen)
         /\ TrueTimes(cscript[t], k - 1)
         /\ ~cscript[t][k])
        => /\ evals[t] <= k
           /\ Running(t)
           /\ pc[t] = "done" => evals[t] = k /\ result[t] = Err(WouldBlock)

\* block_while! has given up on the MaxLen-th Err(WouldBlock), the predicate
\* having been true until then.
C3_Witness ==
    \E t \in Tasks :
        /\ adapter[t] = "block_while"
        /\ WouldBlockTimes(script[t], MaxLen)
        /\ TrueTimes(cscript[t], MaxLen - 1)
        /\ pc[t] = "done"
        /\ evals[t] = MaxLen
        /\ cevals[t] = MaxLen
        /\ result[t] = Err(WouldBlock)

\* An evaluation of $c, of $e, in a trace.
IsEvC(ev) == ev \in {EvC(TRUE), EvC(FALSE)}

IsEvE(ev) == ev \in {EvE(v) : v \in Result}

\* The outcomes Err(WouldBlock) among the first n of script s.
WouldBlockCount(s, n) == Cardinality({i \in 1..n : s[i] = Err(WouldBlock)})

\* The last n events of trace tr.
LastEvents(tr, n) == SubSeq(tr, Len(tr) - n + 1, Len(tr))

\* C4: in block_while!, every evaluation of the predicate comes right after an
\* evaluation of the producer that returned Err(WouldBlock) (so none comes
\* before the first evaluation of the producer), every Err(WouldBlock) is
\* followed by an evaluation of the predicate before anything else happens,
\* the predicate has been evaluated once per Err(WouldBlock) observed, and a
\* finished block_while! has evaluated the producer at least once.
C4_PredicateOncePerWouldBlock ==
    \A t \in Tasks :
        adapter[t] = "block_while" =>
            /\ \A i \in 1..Len(trace[t]) :
                   IsEvC(trace[t][i]) =>
                       i > 1 /\ trace[t][i - 1] = EvE(Err(WouldBlock))
            /\ \A i \in 1..(Len(trace[t]) - 1) :
                   trace[t][i] = EvE(Err(WouldBlock)) => IsEvC(trace[t][i + 1])
            /\ cevals[t] = Cardinality({i \in 1..Len(trace[t]) : IsEvC(trace[t][i])})
            /\ evals[t] = Cardinality({i \in 1..Len(trace[t]) : IsEvE(trace[t][i])})
            /\ cevals[t] = WouldBlockCount(script[t], evals[t])
                             - (IF pc[t] = "match" /\ IsErrWouldBlock(r[t]) THEN 1 ELSE 0)
            /\ evals[t] = 0 => cevals[t] = 0
            /\ pc[t] = "done" => evals[t] >= 1

\* block_while! has given up with a predicate that was false from the start,
\* after one evaluation of the producer and one of the predicate.
C4_Witness ==
    \E t \in Tasks :
        /\ adapter[t] = "block_while"
        /\ ~cscript[t][1]
        /\ pc[t] = "done"
        /\ evals[t] = 1
        /\ cevals[t] = 1
        /\ result[t] = Err(WouldBlock)
        /\ trace[t] = <<EvEnter, EvE(Err(WouldBlock)), EvC(FALSE), EvExit>>

\* C5: block_while! over a producer that returns Ok(v) on evaluation k+1,
\* after k outcomes Err(WouldBlock) on which the predicate was true, is done
\* with the result Ok(v) after k+1 evaluations of the producer, whatever the
\* predicate's next value is, and the predicate is evaluated k times and no
\* more: the trace ends with the producer's Ok(v) and the exit.
C5_BlockWhileOkIgnoresPredicate ==
    \A t \in Tasks : \A k \in 0..(MaxLen - 1) : \A v \in T :
        (/\ adapter[t] = "block_while"
         /\ WouldBlockTimes(script[t], k)
         /\ script[t][k + 1] = Ok(v)
         /\ TrueTimes(cscript[t], k))
        => /\ evals[t] <= k + 1
           /\ cevals[t] <= k
           /\ Running(t)
           /\ pc[t] = "done" =>
                /\ result[t] = Ok(v)
                /\ evals[t] = k + 1
                /\ cevals[t] = k
                /\ LastEvents(trace[t], 2) = <<EvE(Ok(v)), EvExit>>

\* block_while! has returned Ok(v) at a moment the predicate would have been
\* false, after MaxLen - 1 outcomes Err(WouldBlock).
C5_Witness ==
    \E t \in Tasks : \E v \in T :
        /\ adapter[t] = "block_while"
        /\ WouldBlockTimes(script[t], MaxLen - 1)
        /\ script[t][MaxLen] = Ok(v)
        /\ TrueTimes(cscript[t], MaxLen - 1)
        /\ ~cscript[t][MaxLen]
        /\ pc[t] = "done"
        /\ cevals[t] = MaxLen - 1
        /\ result[t] = Ok(v)

\* C6: when block_while! is done, its result is Err(Other(e)) exactly when
\* the producer's last outcome was Err(Other(e)), and is Err(WouldBlock)
\* exactly when the producer's last outcome was Err(WouldBlock) and the
\* predicate, evaluated right after it, was false.
C6_BlockWhileTerminalVsExhaustion ==
    \A t \in Tasks :
        (adapter[t] = "block_while" /\ pc[t] = "done") =>
            /\ r[t] = script[t][evals[t]]
            /\ \A e \in E : result[t] = Err(Other(e)) <=> r[t] = Err(Other(e))
            /\ result[t] = Err(WouldBlock) <=>
                   /\ r[t] = Err(WouldBlock)
                   /\ LastEvents(trace[t], 3) = <<EvE(Err(WouldBlock)), EvC(FALSE), EvExit>>
            /\ result[t] \in Result

\* block_while! has returned the terminal failure Err(Other(e)) after an
\* Err(WouldBlock) on which the predicate was true.
C6_Witness ==
    \E t \in Tasks : \E e \in E :
        /\ adapter[t] = "block_while"
        /\ pc[t] = "done"
        /\ cevals[t] >= 1
        /\ r[t] = Err(Other(e))
        /\ result[t] = Err(Other(e))

\* The events of trace tr from its last entry (call, poll or resumption) on.
LastEnter(tr) ==
    CHOOSE i \in 1..Len(tr) :
        tr[i] = EvEnter /\ \A j \in (i + 1)..Len(tr) : tr[j] # EvEnter

LastCall(tr) == SubSeq(tr, LastEnter(tr), Len(tr))

\* C7: a poll function that uses try_nb! evaluates the producer exactly once
\* per call, never more.  When the call has returned: on Err(WouldBlock) it
\* returned Ok(NotReady) right after the evaluation and the code after the
\* adapter did not run; on Err(Other(e)) it returned Err(e) right after the
\* evaluation; on Ok(v) the adapter yielded v, the code after it ran in the
\* same call and the function returned Ok(Ready(v)).
C7_TryNbSingleShot ==
    \A t \in Tasks :
        adapter[t] = "try_nb" =>
            /\ evals[t] = entries[t] - (IF pc[t] = "expr" THEN 1 ELSE 0)
            /\ pc[t] = "after" =>
                   /\ IsOk(r[t])
                   /\ x[t] = OkBinding(r[t])
                   /\ current = t
                   /\ LastCall(trace[t]) = <<EvEnter, EvE(r[t])>>
            /\ pc[t] = "returned" =>
                   /\ r[t] = script[t][evals[t]]
                   /\ r[t] = Err(WouldBlock) =>
                          /\ result[t] = Ok(NotReady)
                          /\ LastCall(trace[t]) = <<EvEnter, EvE(r[t]), EvExit>>
                   /\ \A e \in E :
                          r[t] = Err(Other(e)) =>
                              /\ result[t] = Err(e)
                              /\ LastCall(trace[t]) = <<EvEnter, EvE(r[t]), EvExit>>
                   /\ \A v \in T :
                          r[t] = Ok(v) =>
                              /\ x[t] = v
                              /\ result[t] = Ok(Ready(v))
                              /\ LastCall(trace[t]) = <<EvEnter, EvE(r[t]), EvAfter, EvExit>>

\* The first poll has returned Ok(NotReady) after one evaluation of a producer
\* whose next outcome would have been Ok.
C7_Witness ==
    \E t \in Tasks : \E v \in T :
        /\ adapter[t] = "try_nb"
        /\ script[t][1] = Err(WouldBlock)
        /\ script[t][2] = Ok(v)
        /\ pc[t] = "returned"
        /\ entries[t] = 1
        /\ evals[t] = 1
        /\ result[t] = Ok(NotReady)
        /\ trace[t] = <<EvEnter, EvE(Err(WouldBlock)), EvExit>>

\* C8: a routine that uses await! over a producer that returns Err(WouldBlock)
\* exactly k times and then Ok(v) never suspends more than k times, keeps
\* going for as long as it is resumed, and is done on its (k+1)-th resumption
\* with Ok(v), having suspended exactly k times (not at all for k = 0).
C8_AwaitSuspendsPerWouldBlock ==
    \A t \in Tasks : \A k \in 0..(MaxLen - 1) : \A v \in T :
        (/\ adapter[t] = "await"
         /\ WouldBlockTimes(script[t], k)
         /\ script[t][k + 1] = Ok(v))
        => /\ yields[t] <= k
           /\ entries[t] <= k + 1
           /\ Running(t)
           /\ pc[t] = "done" =>
                /\ yields[t] = k
                /\ entries[t] = k + 1
                /\ evals[t] = k + 1
                /\ result[t] = Ok(v)

\* The routine has produced Ok(v) on its MaxLen-th resumption, after
\* MaxLen - 1 suspensions.
C8_Witness ==
    \E t \in Tasks : \E v \in T :
        /\ adapter[t] = "await"
        /\ WouldBlockTimes(script[t], MaxLen - 1)
        /\ pc[t] = "done"
        /\ yields[t] = MaxLen - 1
        /\ entries[t] = MaxLen
        /\ result[t] = Ok(v)

\* C9: a routine that uses await! over a producer that returns Err(WouldBlock)
\* k times and then Err(Other(e)) is done at that observation with the value
\* Err(e): it has suspended k times, once per Err(WouldBlock) and not for the
\* failure, it has evaluated the producer k+1 times and never evaluates it
\* again, and its trace ends with the failure and the exit.
C9_AwaitBreaksOnOther ==
    \A t \in Tasks : \A k \in 0..(MaxLen - 1) : \A e \in E :
        (/\ adapter[t] = "await"
         /\ WouldBlockTimes(script[t], k)
         /\ script[t][k + 1] = Err(Other(e)))
        => /\ yields[t] <= k
           /\ evals[t] <= k + 1
           /\ Running(t)
           /\ pc[t] = "done" =>
                /\ result[t] = Err(e)
                /\ yields[t] = k
                /\ evals[t] = k + 1
                /\ LastEvents(trace[t], 2) = <<EvE(Err(Other(e))), EvExit>>

\* The routine has received Err(e) from await! after MaxLen - 2 suspensions,
\* with an outcome of the producer left unread.
C9_Witness ==
    \E t \in Tasks : \E e \in E :
        /\ adapter[t] = "await"
        /\ WouldBlockTimes(script[t], MaxLen - 2)
        /\ script[t][MaxLen - 1] = Err(Other(e))
        /\ pc[t] = "done"
        /\ yields[t] = MaxLen - 2
        /\ evals[t] = MaxLen - 1
        /\ result[t] = Err(e)

\* C10: in a routine that uses await!, every evaluation of the producer comes
\* right after a resumption, every resumption but the first comes right after
\* a suspension, every suspension comes right after an Err(WouldBlock), and
\* every Err(WouldBlock) is followed by a suspension before anything else
\* happens: the producer is evaluated once per resumption, and the routine is
\* in control only from a resumption to the next suspension or completion.
C10_AwaitOneEvaluationPerTurn ==
    \A t \in Tasks :
        adapter[t] = "await" =>
            /\ \A i \in 1..Len(trace[t]) :
                   /\ IsEvE(trace[t][i]) => i > 1 /\ trace[t][i - 1] = EvEnter
                   /\ trace[t][i] = EvEnter => i = 1 \/ trace[t][i - 1] = EvYield
                   /\ trace[t][i] = EvYield =>
                          i > 1 /\ trace[t][i - 1] = EvE(Err(WouldBlock))
            /\ \A i \in 1..(Len(trace[t]) - 1) :
                   /\ trace[t][i] = EvE(Err(WouldBlock)) => trace[t][i + 1] = EvYield
                   /\ trace[t][i] = EvEnter => IsEvE(trace[t][i + 1])
            /\ evals[t] = Cardinality({i \in 1..Len(trace[t]) : IsEvE(trace[t][i])})
            /\ yields[t] = Cardinality({i \in 1..Len(trace[t]) : trace[t][i] = EvYield})
            /\ entries[t] = Cardinality({i \in 1..Len(trace[t]) : trace[t][i] = EvEnter})
            /\ evals[t] = entries[t] - (IF pc[t] = "loop" THEN 1 ELSE 0)
            /\ yields[t] = WouldBlockCount(script[t], evals[t])
                             - (IF pc[t] \in {"match", "yield"} /\ IsErrWouldBlock(r[t])
                                  THEN 1 ELSE 0)
            /\ (current = t) <=> (pc[t] \in {"loop", "match", "yield"})

\* The routine is suspended for the second time, after two resumptions and
\* two evaluations of the producer.
C10_Witness ==
    \E t \in Tasks :
        /\ adapter[t] = "await"
        /\ pc[t] = "suspended"
        /\ current = NoTask
        /\ yields[t] = 2
        /\ entries[t] = 2
        /\ evals[t] = 2

\* C11: when block! is done, the outcome of its last evaluation of the
\* producer was not Err(WouldBlock), and its result is Ok(v) for the Ok(v) the
\* producer returned last or Err(e) for the Err(Other(e)) it returned last:
\* never Err(WouldBlock), and never any other value that holds WouldBlock.
C11_BlockNeverReturnsWouldBlock ==
    \A t \in Tasks :
        (adapter[t] = "block" /\ pc[t] = "done") =>
            /\ evals[t] >= 1
            /\ script[t][evals[t]] # Err(WouldBlock)
            /\ result[t] # Err(WouldBlock)
            /\ \A i \in 1..Len(result[t]) : result[t][i] # "WouldBlock"
            /\ result[t] \in {Ok(v) : v \in T} \cup {Err(e) : e \in E}
            /\ \A v \in T : script[t][evals[t]] = Ok(v) => result[t] = Ok(v)
            /\ \A e \in E : script[t][evals[t]] = Err(Other(e)) => result[t] = Err(e)

\* block! is done after it saw Err(WouldBlock) on every evaluation but the
\* last.
C11_Witness ==
    \E t \in Tasks :
        /\ adapter[t] = "block"
        /\ pc[t] = "done"
        /\ evals[t] = MaxLen
        /\ WouldBlockCount(script[t], evals[t]) = MaxLen - 1
        /\ result[t] # None

\* Task t has handed a value back to its caller: the macro broke out of its
\* loop, or the poll function returned.
Finished(t) == pc[t] \in {"done", "returned"}

\* A value is a failure; a value holds WouldBlock.
IsFailure(v) == Len(v) >= 1 /\ v[1] = "Err"

HoldsWouldBlock(v) == \E i \in 1..Len(v) : v[i] = "WouldBlock"

\* C12, as claimed: no adapter hands a failure that holds WouldBlock back to
\* its caller; a failure reaches the caller only when the producer's last
\* outcome was Err(Other(e)).
C12_NoAdapterPropagatesWouldBlock ==
    \A t \in Tasks :
        (Finished(t) /\ IsFailure(result[t])) =>
            /\ ~HoldsWouldBlock(result[t])
            /\ IsErrOther(script[t][evals[t]])

\* C12, amended: block!, try_nb! and await! never hand a failure that holds
\* WouldBlock back to their caller, and a failure reaches their caller only
\* when the producer's last outcome was Err(Other(e)): an Err(WouldBlock) is
\* retried (block!), answered with Ok(NotReady) (try_nb!) or followed by a
\* suspension (await!).  block_while! hands Err(WouldBlock) back, and only
\* when the producer's last outcome was Err(WouldBlock) and its predicate was
\* false.
C12_WouldBlockOnlyFromBlockWhile ==
    \A t \in Tasks :
        /\ (Finished(t) /\ IsFailure(result[t]) /\ adapter[t] # "block_while") =>
               /\ ~HoldsWouldBlock(result[t])
               /\ IsErrOther(script[t][evals[t]])
        /\ (Finished(t) /\ IsFailure(result[t]) /\ adapter[t] = "block_while") =>
               \/ /\ ~HoldsWouldBlock(result[t])
                  /\ IsErrOther(script[t][evals[t]])
               \/ /\ result[t] = Err(WouldBlock)
                  /\ script[t][evals[t]] = Err(WouldBlock)
                  /\ ~cscript[t][cevals[t]]
        /\ (evals[t] >= 1 /\ script[t][evals[t]] = Err(WouldBlock)) =>
               CASE adapter[t] = "block" -> pc[t] \in {"match", "loop"}
                 [] adapter[t] = "try_nb" ->
                        \/ pc[t] = "match"
                        \/ pc[t] = "returned" /\ result[t] = Ok(NotReady)
                        \/ pc[t] = "expr"
                 [] adapter[t] = "await" ->
                        pc[t] \in {"match", "yield", "suspended", "loop"}
                 [] adapter[t] = "block_while" -> TRUE

\* The poll function has answered Ok(NotReady) a second time.
C12_Witness ==
    \E t \in Tasks :
        /\ adapter[t] = "try_nb"
        /\ pc[t] = "returned"
        /\ entries[t] = 2
        /\ evals[t] = 2
        /\ script[t][2] = Err(WouldBlock)
        /\ result[t] = Ok(NotReady)

\* C13: whenever a task has handed a value back after the producer's last
\* outcome was Err(Other(e)), that value holds exactly e: Err(e) from block!,
\* try_nb! and await!, Err(Other(e)) from block_while!.
C13_OtherPassesThroughUnchanged ==
    \A t \in Tasks : \A e \in E :
        (evals[t] >= 1 /\ script[t][evals[t]] = Err(Other(e))) =>
            /\ Finished(t) \/ ENABLED Next
            /\ pc[t] \in {"match", "done", "returned"}
            /\ Finished(t) =>
                   result[t] = IF adapter[t] = "block_while"
                                 THEN Err(Other(e))
                                 ELSE Err(e)

\* The poll function has returned the second domain error, after it had
\* answered Ok(NotReady) once.
C13_Witness ==
    \E t \in Tasks :
        /\ adapter[t] = "try_nb"
        /\ pc[t] = "returned"
        /\ entries[t] = 2
        /\ script[t][2] = Err(Other(<<"e2">>))
        /\ result[t] = Err(<<"e2">>)

\* What a step may do to a routine that uses await!: it evaluates the
\* producer only while the routine is in control on a resumption that no
\* suspension has ended yet, and a suspended routine stays as it is until a
\* step resumes it.
AwaitProgressOnlyWhenResumed ==
    \A t \in Tasks :
        adapter[t] = "await" =>
            /\ evals'[t] # evals[t] =>
                   /\ current = t
                   /\ entries[t] = yields[t] + 1
                   /\ evals'[t] = entries[t]
            /\ pc[t] = "suspended" =>
                   /\ evals'[t] = evals[t]
                   /\ result'[t] = result[t]
                   /\ \/ pc'[t] = "suspended" /\ entries'[t] = entries[t]
                      \/ pc'[t] = "loop" /\ entries'[t] = entries[t] + 1

\* A routine that uses await! over a producer that returns Err(WouldBlock) on
\* every evaluation is never done, and whenever it is out of control after a
\* resumption it is suspended, once per resumption.
AwaitNeverReadyNeverDone ==
    \A t \in Tasks :
        (adapter[t] = "await" /\ WouldBlockTimes(script[t], MaxLen)) =>
            /\ pc[t] # "done"
            /\ result[t] = None
            /\ (current # t /\ entries[t] >= 1) =>
                   pc[t] = "suspended" /\ yields[t] = entries[t]

\* C14: a routine that uses await! makes progress only on resumption (after a
\* suspension the producer is not evaluated again until the routine is
\* resumed), and over a producer that returns Err(WouldBlock) on every
\* evaluation it suspends again on every resumption and is never done.
C14_AwaitProgressOnlyOnResumption ==
    /\ [][AwaitProgressOnlyWhenResumed]_vars
    /\ []AwaitNeverReadyNeverDone

\* The routine is suspended for the MaxLen-th time over a producer that
\* never stopped returning Err(WouldBlock).
C14_Witness ==
    \E t \in Tasks :
        /\ adapter[t] = "await"
        /\ WouldBlockTimes(script[t], MaxLen)
        /\ pc[t] = "suspended"
        /\ yields[t] = MaxLen
        /\ entries[t] = MaxLen

\* C15: a call of map that has returned gave Other(op(e)) for Other(e),
\* having called op once, and WouldBlock for WouldBlock, having called op not
\* at all.
C15_MapAppliesOpToOtherOnly ==
    (call.fn = "map" /\ call.pc = "returned") =>
        /\ \A e \in E :
               call.a = Other(e) =>
                   call.ret = Other(call.op[e]) /\ call.opcalls = 1
        /\ call.a = WouldBlock =>
               call.ret = WouldBlock /\ call.opcalls = 0

\* map has returned WouldBlock for WouldBlock, and its closure was not called.
C15_Witness ==
    /\ call.fn = "map"
    /\ call.pc = "returned"
    /\ call.a = WouldBlock
    /\ call.ret = WouldBlock
    /\ call.opcalls = 0

\* C16: a == b has returned true exactly when a and b are both WouldBlock or
\* are Other(d) and Other(e) with d = e; Other(e) == WouldBlock is false
\* for every e.
C16_EqualityIsStructural ==
    (call.fn = "eq" /\ call.pc = "returned") =>
        /\ call.ret <=>
               \/ call.a = WouldBlock /\ call.b = WouldBlock
               \/ \E d \in E2 : call.a = Other(d) /\ call.b = Other(d)
        /\ \A e \in E2 :
               (call.a = Other(e) /\ call.b = WouldBlock) => ~call.ret

\* == has returned false for two Other of different payloads.
C16_Witness ==
    /\ call.fn = "eq"
    /\ call.pc = "returned"
    /\ call.a = Other(<<"e1">>)
    /\ call.b = Other(<<"e2">>)
    /\ call.ret = FALSE

\* C17: Error::from(e) has returned Other(e), for every domain error e, and
\* never WouldBlock.
C17_FromIsOther ==
    (call.fn = "from" /\ call.pc = "returned") =>
        /\ \E e \in E : call.a = e /\ call.ret = Other(e)
        /\ call.ret # WouldBlock

\* from has returned Other of the second domain error.
C17_Witness ==
    /\ call.fn = "from"
    /\ call.pc = "returned"
    /\ call.a = <<"e2">>
    /\ call.ret = Other(<<"e2">>)

\* Task t has delivered its final outcome: the macro broke out of its loop,
\* or the poll function returned something other than Ok(NotReady).
Complete(t) ==
    \/ pc[t] = "done"
    \/ pc[t] = "returned" /\ result[t] # Ok(NotReady)

\* The final outcome of task t, Ok(v) or Err(e): the poll function's
\* Ok(Ready(v)) is the outcome Ok(v).
FinalOutcome(t) ==
    IF adapter[t] = "try_nb" /\ result[t] \in {Ok(Ready(v)) : v \in T}
      THEN Ok(Tail(Tail(result[t])))
      ELSE result[t]

\* C18: over producers that return Err(WouldBlock) k times and then Ok(v) or
\* Err(Other(e)), block!, a poll function with try_nb! that is polled again
\* while it answers NotReady, and a generator with await! that is resumed
\* while it is suspended, each evaluate the producer at most k+1 times, can go
\* on until they are complete, and are complete with k+1 evaluations and the
\* outcome Ok(v) or Err(e): any two that are complete agree.
C18_ExecutionModelsAgree ==
    \A k \in 0..(MaxLen - 1) :
        (/\ adapter = <<"block", "try_nb", "await">>
         /\ \A t \in Tasks : /\ WouldBlockTimes(script[t], k)
                             /\ script[t][k + 1] # Err(WouldBlock))
        => /\ \A t \in Tasks :
                  /\ evals[t] <= k + 1
                  /\ Complete(t) =>
                         /\ evals[t] = k + 1
                         /\ \A v \in T :
                                script[t][k + 1] = Ok(v) => FinalOutcome(t) = Ok(v)
                         /\ \A e \in E :
                                script[t][k + 1] = Err(Other(e)) =>
                                    FinalOutcome(t) = Err(e)
           /\ \A t \in Tasks : \A u \in Tasks :
                  (Complete(t) /\ Complete(u)) =>
                      /\ FinalOutcome(t) = FinalOutcome(u)
                      /\ evals[t] = evals[u]
           /\ (\E t \in Tasks : ~Complete(t)) => ENABLED NextAgree

\* The three tasks are complete with the same value Ok(v), each after MaxLen
\* evaluations of its producer.
C18_Witness ==
    \E v \in T :
        /\ adapter = <<"block", "try_nb", "await">>
        /\ \A t \in Tasks : Complete(t) /\ evals[t] = MaxLen
        /\ result[1] = Ok(v)
        /\ result[2] = Ok(Ready(v))
        /\ result[3] = Ok(v)

\* The producer of task t returns something other than Err(WouldBlock) on
\* one of its evaluations; it never does.
EventuallyReady(t) == \E i \in 1..MaxLen : script[t][i] # Err(WouldBlock)

NeverReady(t) == WouldBlockTimes(script[t], MaxLen)

\* block! has been called over a producer that is ready at some evaluation;
\* over a producer that never is.
BlockCalledEventuallyReady ==
    \E t \in Tasks : adapter[t] = "block" /\ pc[t] # "idle" /\ EventuallyReady(t)

BlockCalledNeverReady ==
    \E t \in Tasks : adapter[t] = "block" /\ pc[t] # "idle" /\ NeverReady(t)

BlockDone == \E t \in Tasks : adapter[t] = "block" /\ pc[t] = "done"

\* block! is in control at the head of its loop after MaxLen evaluations of
\* the producer.
BlockStillLooping ==
    \E t \in Tasks :
        /\ adapter[t] = "block"
        /\ pc[t] = "loop"
        /\ current = t
        /\ evals[t] = MaxLen

\* block! over a producer that is never ready is not done, has no result and,
\* once called, keeps control.
BlockNeverReadyNeverDone ==
    \A t \in Tasks :
        (adapter[t] = "block" /\ NeverReady(t)) =>
            /\ pc[t] # "done"
            /\ result[t] = None
            /\ pc[t] # "idle" => current = t

\* C20: block! called over a producer that returns something other than
\* Err(WouldBlock) after finitely many Err(WouldBlock) is eventually done;
\* block! over a producer that returns Err(WouldBlock) on every evaluation is
\* never done, keeps control and evaluates the producer again and again, all
\* the MaxLen times the run scripts.
C20_BlockTerminatesIffReady ==
    /\ BlockCalledEventuallyReady ~> BlockDone
    /\ []BlockNeverReadyNeverDone
    /\ BlockCalledNeverReady ~> BlockStillLooping

\* block! is still in its loop, in control, after MaxLen outcomes
\* Err(WouldBlock) of a producer that is never ready.
C20_Witness ==
    \E t \in Tasks :
        /\ adapter[t] = "block"
        /\ NeverReady(t)
        /\ pc[t] = "loop"
        /\ current = t
        /\ evals[t] = MaxLen
        /\ result[t] = None

\* Exactly one routine runs at a time: a task that is not in control is not
\* started, suspended or done, and a routine that uses await! has evaluated
\* its producer once per resumption (the evaluation of the resumption under
\* way may still be to come).
OneRoutineAtATime ==
    \A t \in Tasks :
        /\ current # t => pc[t] \in {"idle", "suspended", "done"}
        /\ adapter[t] = "await" =>
               /\ evals[t] = entries[t] - (IF pc[t] = "loop" THEN 1 ELSE 0)
               /\ current = t => pc[t] \in {"loop", "match", "yield"}

\* With two routines that use await!, neither gets ahead of the other by
\* more than a turn while both are unfinished.
TurnsAlternate ==
    (adapter = <<"await", "await">> /\ pc[1] # "done" /\ pc[2] # "done") =>
        /\ entries[2] <= entries[1]
        /\ entries[1] <= entries[2] + 1

\* With block! in place of await! over a never-ready producer, the other
\* routine is never run and block! is never done.
BlockStarvesTheOther ==
    (adapter = <<"block", "await">> /\ NeverReady(1)) =>
        /\ pc[1] # "done"
        /\ pc[1] # "idle" => current = 1
        /\ pc[2] = "idle"
        /\ entries[2] = 0
        /\ evals[2] = 0

AwaitInControl == \E t \in Tasks : adapter[t] = "await" /\ current = t

LoopInControl == current = NoTask

NeverReadyBesideReady ==
    adapter = <<"await", "await">> /\ NeverReady(1) /\ EventuallyReady(2)

ReadyBesideNeverReady ==
    adapter = <<"await", "await">> /\ EventuallyReady(1) /\ NeverReady(2)

NeverReadyBlock == adapter = <<"block", "await">> /\ NeverReady(1)

BlockKeepsControl == current = 1 /\ pc[1] = "loop" /\ evals[1] = MaxLen

FirstDone == pc[1] = "done"

SecondDone == pc[2] = "done"

\* C19: under the event loop that resumes two await! routines in turns, one
\* routine runs at a time, every resumption hands control back to the loop
\* after one evaluation of the producer, the turns alternate, and a routine
\* whose producer is ready at some evaluation is eventually done although the
\* other's producer is never ready.  With block! in place of await!, a
\* never-ready producer keeps control and the other routine is never run.
C19_AwaitDoesNotStarve ==
    /\ []OneRoutineAtATime
    /\ []TurnsAlternate
    /\ AwaitInControl ~> LoopInControl
    /\ NeverReadyBesideReady ~> SecondDone
    /\ ReadyBesideNeverReady ~> FirstDone
    /\ []BlockStarvesTheOther
    /\ NeverReadyBlock ~> BlockKeepsControl

\* The second routine is done on its MaxLen-th turn, beside a first routine
\* that was suspended MaxLen times over a never-ready producer.
C19_Witness ==
    \E v \in T :
        /\ adapter = <<"await", "await">>
        /\ NeverReady(1)
        /\ pc[1] = "suspended"
        /\ yields[1] = MaxLen
        /\ pc[2] = "done"
        /\ entries[2] = MaxLen
        /\ result[2] = Ok(v)

====
